---------------------------- MODULE Spec2Model ----------------------------
(***************************************************************************)
(* A model of scripts/scrape_soundcloud.py: the regular-expression passes  *)
(* of scrape_profile and scrape_playlist over a fetched page, the final    *)
(* de-duplication, and the depth-capped traversal of                       *)
(* extract_tracks_from_hydration.                                          *)
(*                                                                         *)
(* Text.  A Python str is modelled at two levels.                          *)
(*  - A page (and an input URL) is a sequence of TOKENS.  A token is       *)
(*    either one of the characters the regular expressions single out      *)
(*    (Specials: / " ? # < > and the space), or a maximal run of other     *)
(*    characters ("href=", "my-track", ...).  Every character class used   *)
(*    by the code ([^/], [^/"], [^"], [^>], [^?"#], \s) is a set of        *)
(*    Specials or its complement, so it treats a run as a whole.           *)
(*  - Every captured group is expanded (Expand) to a sequence of           *)
(*    one-character strings, and all further string operations (replace,   *)
(*    split, title, lower, strip, startswith, in, slicing) are computed    *)
(*    on characters, as Python computes them.                              *)
(***************************************************************************)
EXTENDS Integers, Sequences, FiniteSets, TLC

(***************************************************************************)
(* Characters and Python's str methods                                     *)
(***************************************************************************)
Lowers ==
  <<"a", "b", "c", "d", "e", "f", "g", "h", "i", "j", "k", "l", "m",
    "n", "o", "p", "q", "r", "s", "t", "u", "v", "w", "x", "y", "z">>

Uppers ==
  <<"A", "B", "C", "D", "E", "F", "G", "H", "I", "J", "K", "L", "M",
    "N", "O", "P", "Q", "R", "S", "T", "U", "V", "W", "X", "Y", "Z">>

IndexIn(alphabet, c) ==
  IF \E i \in 1..Len(alphabet) : alphabet[i] = c
  THEN CHOOSE i \in 1..Len(alphabet) : alphabet[i] = c
  ELSE 0

IsCased(c) == IndexIn(Lowers, c) > 0 \/ IndexIn(Uppers, c) > 0

ToLower(c) == IF IndexIn(Uppers, c) > 0 THEN Lowers[IndexIn(Uppers, c)] ELSE c

ToUpper(c) == IF IndexIn(Lowers, c) > 0 THEN Uppers[IndexIn(Lowers, c)] ELSE c

\* str.lower()
Lower(s) == [i \in 1..Len(s) |-> ToLower(s[i])]

\* str.title(): a cased character is upper-cased when the character before
\* it is not cased, and lower-cased otherwise.
Title(s) ==
  [i \in 1..Len(s) |->
     IF i > 1 /\ IsCased(s[i - 1]) THEN ToLower(s[i]) ELSE ToUpper(s[i])]

\* str.replace(a, b) for single characters a and b
ReplaceChar(s, a, b) == [i \in 1..Len(s) |-> IF s[i] = a THEN b ELSE s[i]]

\* str.replace(a, '') for a single character a
RemoveChar(s, a) == SelectSeq(s, LAMBDA c : c # a)

MatchAt(s, i, sub) ==
  /\ i + Len(sub) - 1 <= Len(s)
  /\ \A k \in 1..Len(sub) : s[i + k - 1] = sub[k]

\* sub in s
Contains(s, sub) == \E i \in 1..(Len(s) - Len(sub) + 1) : MatchAt(s, i, sub)

\* s.startswith(p), s.endswith(p)
StartsWith(s, p) == MatchAt(s, 1, p)

EndsWith(s, p) == Len(p) <= Len(s) /\ MatchAt(s, Len(s) - Len(p) + 1, p)

\* the least element of a set of integers, or none when it is empty
FirstOr(S, none) ==
  IF S = {} THEN none ELSE CHOOSE k \in S : \A j \in S : k <= j

\* the greatest element, or none
LastOr(S, none) ==
  IF S = {} THEN none ELSE CHOOSE k \in S : \A j \in S : j <= k

\* s.find(sub, i): the first occurrence from i on, 0 when there is none
Find(s, i, sub) == FirstOr({k \in i..Len(s) : MatchAt(s, k, sub)}, 0)

RECURSIVE RemoveSubFrom(_, _, _)
RemoveSubFrom(s, i, sub) ==
  LET k == Find(s, i, sub)
  IN  IF k = 0 THEN SubSeq(s, i, Len(s))
      ELSE SubSeq(s, i, k - 1) \o RemoveSubFrom(s, k + Len(sub), sub)

\* str.replace(sub, '') for a non-empty sub: the non-overlapping occurrences,
\* left to right, in one pass
RemoveSub(s, sub) == RemoveSubFrom(s, 1, sub)

\* s[:n]
Take(s, n) == SubSeq(s, 1, IF n < Len(s) THEN n ELSE Len(s))

\* the characters \s and str.strip() take for white space
Whitespace == {" "}

\* str.strip()
Strip(s) ==
  SubSeq(s, FirstOr({i \in 1..Len(s) : s[i] \notin Whitespace}, 1),
            LastOr({i \in 1..Len(s) : s[i] \notin Whitespace}, 0))

\* s.split(c)[0]
SplitFirst(s, c) ==
  SubSeq(s, 1, FirstOr({i \in 1..Len(s) : s[i] = c}, Len(s) + 1) - 1)

RECURSIVE SplitFrom(_, _, _)
SplitFrom(s, i, c) ==
  LET k == Find(s, i, <<c>>)
  IN  IF k = 0 THEN <<SubSeq(s, i, Len(s))>>
      ELSE <<SubSeq(s, i, k - 1)>> \o SplitFrom(s, k + 1, c)

\* s.split(c)
Split(s, c) == SplitFrom(s, 1, c)

(***************************************************************************)
(* Tokens                                                                  *)
(***************************************************************************)
Q == "\""

\* the characters some character class of the code tells apart
Specials == {"/", Q, "?", "#", "<", ">", " "}

\* html[aria_pos - 1000 : aria_pos + 1000]
Window == 1000

\* a run of Window ordinary characters: text long enough to push what
\* follows it out of every window that ends before it
Filler == "~filler~"

\* the characters of a token
Chars(t) ==
  CASE t = "href=" -> <<"h", "r", "e", "f", "=">>
    [] t = "class=" -> <<"c", "l", "a", "s", "s", "=">>
    [] t = "aria-label=" -> <<"a", "r", "i", "a", "-", "l", "a", "b", "e", "l", "=">>
    [] t = "Track:" -> <<"T", "r", "a", "c", "k", ":">>
    [] t = "by" -> <<"b", "y">>
    [] t = "li" -> <<"l", "i">>
    [] t = "a" -> <<"a">>
    [] t = "link" -> <<"l", "i", "n", "k">>
    [] t = "https:" -> <<"h", "t", "t", "p", "s", ":">>
    [] t = "http:" -> <<"h", "t", "t", "p", ":">>
    [] t = "soundcloud.com" -> <<"s", "o", "u", "n", "d", "c", "l", "o", "u", "d", ".", "c", "o", "m">>
    [] t = "localhost" -> <<"l", "o", "c", "a", "l", "h", "o", "s", "t">>
    [] t = "soundList__item" -> <<"s", "o", "u", "n", "d", "L", "i", "s", "t", "_", "_", "i", "t", "e", "m">>
    [] t = "sound__coverArt" -> <<"s", "o", "u", "n", "d", "_", "_", "c", "o", "v", "e", "r", "A", "r", "t">>
    [] t = "trackItem__trackTitle" -> <<"t", "r", "a", "c", "k", "I", "t", "e", "m", "_", "_", "t", "r", "a", "c", "k", "T", "i", "t", "l", "e">>
    [] t = "sets" -> <<"s", "e", "t", "s">>
    [] t = "playlists" -> <<"p", "l", "a", "y", "l", "i", "s", "t", "s">>
    [] t = "reposts" -> <<"r", "e", "p", "o", "s", "t", "s">>
    [] t = "tracks" -> <<"t", "r", "a", "c", "k", "s">>
    [] t = "popular-tracks" -> <<"p", "o", "p", "u", "l", "a", "r", "-", "t", "r", "a", "c", "k", "s">>
    [] t = "albums" -> <<"a", "l", "b", "u", "m", "s">>
    [] t = "followers" -> <<"f", "o", "l", "l", "o", "w", "e", "r", "s">>
    [] t = "following" -> <<"f", "o", "l", "l", "o", "w", "i", "n", "g">>
    [] t = "me" -> <<"m", "e">>
    [] t = "dj-x" -> <<"d", "j", "-", "x">>
    [] t = "DJ" -> <<"D", "J">>
    [] t = "X" -> <<"X">>
    [] t = "my-song" -> <<"m", "y", "-", "s", "o", "n", "g">>
    [] t = "My" -> <<"M", "y">>
    [] t = "Song" -> <<"S", "o", "n", "g">>
    [] t = "my_song" -> <<"m", "y", "_", "s", "o", "n", "g">>
    [] t = "reposts-mix" -> <<"r", "e", "p", "o", "s", "t", "s", "-", "m", "i", "x">>
    [] t = "mix" -> <<"m", "i", "x">>
    [] t = "likes" -> <<"l", "i", "k", "e", "s">>
    [] t = "in=1" -> <<"i", "n", "=", "1">>
    [] t = "x" -> <<"x">>
    [] t = "data-k=" -> <<"d", "a", "t", "a", "-", "k", "=">>
    [] t = "rel=" -> <<"r", "e", "l", "=">>
    [] t = "mp3" -> <<"m", "p", "3">>
    [] t = "Song.mp3" -> <<"S", "o", "n", "g", ".", "m", "p", "3">>
    [] t = "song" -> <<"s", "o", "n", "g">>
    [] t = "t" -> <<"t">>
    [] t = "nothing" -> <<"n", "o", "t", "h", "i", "n", "g">>
    [] t = "http-x" -> <<"h", "t", "t", "p", "-", "x">>
    [] t = Filler -> [i \in 1..Window |-> "x"]
    [] t = "http" -> <<"h", "t", "t", "p">>
    [] t = "Unknown" -> <<"U", "n", "k", "n", "o", "w", "n">>
    [] t = "Track" -> <<"T", "r", "a", "c", "k">>
    [] t \in Specials -> <<t>>

\* len(token)
TokLen(t) == IF t = Filler THEN Window ELSE Len(Chars(t))

\* the str that tokens lo..hi of ts spell (by halves, to keep the
\* evaluation shallow)
RECURSIVE ExpandRange(_, _, _)
ExpandRange(ts, lo, hi) ==
  IF lo > hi THEN <<>>
  ELSE IF lo = hi THEN Chars(ts[lo])
  ELSE ExpandRange(ts, lo, (lo + hi) \div 2)
         \o ExpandRange(ts, (lo + hi) \div 2 + 1, hi)

\* the str a sequence of tokens spells
Expand(ts) == ExpandRange(ts, 1, Len(ts))

\* the number of characters of tokens lo..hi of d
RECURSIVE LenRange(_, _, _)
LenRange(d, lo, hi) ==
  IF lo > hi THEN 0
  ELSE IF lo = hi THEN TokLen(d[lo])
  ELSE LenRange(d, lo, (lo + hi) \div 2)
         + LenRange(d, (lo + hi) \div 2 + 1, hi)

\* Offsets(d)[k]: the number of characters before token k (k = Len(d) + 1:
\* len(html))
Offsets(d) == [k \in 1..(Len(d) + 1) |-> LenRange(d, 1, k - 1)]

\* the first position from i on whose token is in S (Len(d) + 1: none)
NextIn(d, i, S) == FirstOr({k \in i..Len(d) : d[k] \in S}, Len(d) + 1)

\* the first position from i on whose token is not in S
NextNotIn(d, i, S) == FirstOr({k \in i..Len(d) : d[k] \notin S}, Len(d) + 1)

\* a literal that ends a run: href=, class=, aria-label=
RunEndsWith(t, lit) == t \notin Specials /\ EndsWith(Chars(t), Chars(lit))

\* a literal that starts a run: <li, <a
RunStartsWith(t, lit) == t \notin Specials /\ StartsWith(Chars(t), Chars(lit))

NoMatch == [ok |-> FALSE]

(***************************************************************************)
(* The regular expressions, matched on tokens.  XxxAt(d, i) is the match   *)
(* of the pattern that starts in token i of d (the one Python's            *)
(* backtracking finds), XxxAll is re.findall: the non-overlapping matches, *)
(* left to right (the scan resumes after the end of each match).           *)
(***************************************************************************)

\* re.findall, given the match M[k] of the pattern that starts in token k:
\* the non-overlapping matches from token i on, left to right
RECURSIVE FindAllFrom(_, _)
FindAllFrom(M, i) ==
  LET k == FirstOr({j \in i..Len(M) : M[j].ok}, 0)
  IN  IF k = 0 THEN <<>> ELSE <<M[k]>> \o FindAllFrom(M, M[k].end + 1)

\* r'href="(https://soundcloud\.com/[^/]+/[^/"]+)"'
HrefAbsAt(d, i) ==
  LET b == NextIn(d, i + 7, {"/"})
      e == NextIn(d, b + 1, {"/", Q})
  IN  IF /\ i + 6 <= Len(d)
         /\ RunEndsWith(d[i], "href=")
         /\ d[i + 1] = Q
         /\ d[i + 2] = "https:" /\ d[i + 3] = "/" /\ d[i + 4] = "/"
         /\ d[i + 5] = "soundcloud.com" /\ d[i + 6] = "/"
         /\ b > i + 7 /\ b <= Len(d)
         /\ e > b + 1 /\ e <= Len(d) /\ d[e] = Q
      THEN [ok |-> TRUE, end |-> e, match |-> SubSeq(d, i + 2, e - 1)]
      ELSE NoMatch

\* r'href="/([^/]+/[^/"]+)"' and r'href="/([^/]+)/([^/"]+)"'
HrefRelAt(d, i) ==
  LET b == NextIn(d, i + 3, {"/"})
      e == NextIn(d, b + 1, {"/", Q})
  IN  IF /\ i + 2 <= Len(d)
         /\ RunEndsWith(d[i], "href=")
         /\ d[i + 1] = Q
         /\ d[i + 2] = "/"
         /\ b > i + 3 /\ b <= Len(d)
         /\ e > b + 1 /\ e <= Len(d) /\ d[e] = Q
      THEN [ok |-> TRUE, end |-> e, match |-> SubSeq(d, i + 3, e - 1),
            artist_slug |-> SubSeq(d, i + 3, b - 1),
            track_slug |-> SubSeq(d, b + 1, e - 1)]
      ELSE NoMatch

\* the match m, which starts in token k, if it lies in the characters
\* [lo, hi) and no match otherwise: it starts Len("href=") characters before
\* the end of token k and ends with its closing quote.  off is Offsets(d).
Within(off, k, m, lo, hi) ==
  IF m.ok /\ off[k + 1] - TokLen("href=") >= lo /\ off[m.end + 1] <= hi
  THEN m ELSE NoMatch

\* r'\s*([^"]+)\s+by\s+([^"]+)"' from position p on, the closing quote at q.
\* \s* takes as many spaces as leave a match, group 1 is then as long as
\* leaves a match; the spaces before "by" and the place of "by" follow from
\* where group 1 ends, and group 2 runs to the closing quote, keeping the
\* last space for itself when nothing but spaces follows "by".

\* group 1 may end at y: "by" is the token z after the spaces that follow
\* y, and w the first token after the spaces that follow "by"
LabelValid(d, q, y) ==
  LET z == NextNotIn(d, y + 1, Whitespace)
      w == NextNotIn(d, z + 1, Whitespace)
  IN  /\ z > y + 1 /\ z < q /\ d[z] = "by"
      /\ w - (z + 1) >= 1
      /\ (w < q \/ w - (z + 1) >= 2)

\* the ends of group 1 when it starts at s
LabelEnds(d, q, s) == {y \in s..(q - 1) : LabelValid(d, q, y)}

\* the starts of group 1 that leave a match
LabelStarts(d, p, q) ==
  {s \in p..NextNotIn(d, p, Whitespace) : LabelEnds(d, q, s) # {}}

\* the start of group 2 when group 1 ends at y
LabelGroup2(d, q, y) ==
  LET w == NextNotIn(d, NextNotIn(d, y + 1, Whitespace) + 1, Whitespace)
  IN  IF w < q THEN w ELSE q - 1

LabelTail(d, p) ==
  LET q == NextIn(d, p, {Q})
      s == LastOr(LabelStarts(d, p, q), 0)
      y == LastOr(LabelEnds(d, q, s), 0)
  IN  IF q <= Len(d) /\ s > 0
      THEN [ok |-> TRUE, end |-> q,
            track_name |-> SubSeq(d, s, y),
            artist_name |-> SubSeq(d, LabelGroup2(d, q, y), q - 1)]
      ELSE NoMatch

\* <li[^>]*class="soundList__item"[^>]*> : the position of the closing >,
\* or 0.  The class attribute lies before the first > after <li.
SoundItemOpen(d, i) ==
  LET g == NextIn(d, i + 1, {">"})
  IN  IF /\ i + 1 <= Len(d)
         /\ d[i] = "<" /\ RunStartsWith(d[i + 1], "li")
         /\ g <= Len(d)
         /\ \E k \in (i + 2)..(g - 4) :
              /\ RunEndsWith(d[k], "class=") /\ d[k + 1] = Q
              /\ d[k + 2] = "soundList__item" /\ d[k + 3] = Q
      THEN g ELSE 0

\* aria-label="Track: at m
LabelOpenAt(d, m) ==
  /\ m + 2 <= Len(d)
  /\ RunEndsWith(d[m], "aria-label=") /\ d[m + 1] = Q /\ d[m + 2] = "Track:"

\* profile: r'<li[^>]*class="soundList__item"[^>]*>.*?
\*            aria-label="Track:\s*([^"]+)\s+by\s+([^"]+)"'  (re.DOTALL)
\* .*? stops at the first label after the tag that the rest matches.
ProfileSoundItemAt(d, i) ==
  LET g == SoundItemOpen(d, i)
      m == FirstOr({j \in (g + 1)..Len(d) :
                      LabelOpenAt(d, j) /\ LabelTail(d, j + 3).ok}, 0)
  IN  IF g = 0 \/ m = 0 THEN NoMatch ELSE LabelTail(d, m + 3)

\* r'[^>]*>.*?</li>' after the label at m: the position of the first </li>
\* after the first > after the label (Len(d) + 1: no match)
ItemRest(d, m) ==
  LET t == LabelTail(d, m + 3)
      g == NextIn(d, t.end + 1, {">"})
  IN  IF t.ok /\ g <= Len(d)
      THEN FirstOr({k \in (g + 1)..(Len(d) - 3) :
                      /\ d[k] = "<" /\ d[k + 1] = "/"
                      /\ d[k + 2] = "li" /\ d[k + 3] = ">"}, Len(d) + 1)
      ELSE Len(d) + 1

\* playlist: the profile pattern followed by r'[^>]*>.*?</li>'
PlaylistSoundItemAt(d, i) ==
  LET g == SoundItemOpen(d, i)
      m == FirstOr({j \in (g + 1)..Len(d) :
                      LabelOpenAt(d, j) /\ ItemRest(d, j) <= Len(d)}, 0)
  IN  IF g = 0 \/ m = 0 THEN NoMatch
      ELSE [ok |-> TRUE, end |-> ItemRest(d, m) + 3,
            track_name |-> LabelTail(d, m + 3).track_name,
            artist_name |-> LabelTail(d, m + 3).artist_name]

\* html.find(f'aria-label="Track: {track_name}'): the character offset of
\* the first occurrence, -1 when there is none.  The literal ends with
\* track_name, which may end inside a run of the page.  off is Offsets(d).
FindLabel(d, off, name) ==
  LET j == FirstOr({k \in 1..(Len(d) - 3 - Len(name)) :
                      /\ LabelOpenAt(d, k) /\ d[k + 3] = " "
                      /\ \A n \in 1..(Len(name) - 1) : d[k + 3 + n] = name[n]
                      /\ StartsWith(Chars(d[k + 3 + Len(name)]),
                                    Chars(name[Len(name)]))}, 0)
  IN  IF j = 0 THEN -1 ELSE off[j + 1] - TokLen("aria-label=")

\* class="[^"]*CLS[^"]*"[^>]*href= : the positions h of an href= that the
\* class attribute at k reaches
AnchorHrefs(d, k, cls) ==
  LET v == NextIn(d, k + 2, {Q})
  IN  IF /\ RunEndsWith(d[k], "class=") /\ k + 1 <= Len(d) /\ d[k + 1] = Q
         /\ v <= Len(d)
         /\ \E c \in (k + 2)..(v - 1) : Contains(Chars(d[c]), Chars(cls))
      THEN {h \in (v + 1)..(NextIn(d, v + 1, {">"}) - 1) : RunEndsWith(d[h], "href=")}
      ELSE {}

\* <a[^>]* : the positions inside the tag opened at i
AnchorClasses(d, i) ==
  IF i + 1 <= Len(d) /\ d[i] = "<" /\ RunStartsWith(d[i + 1], "a")
  THEN (i + 2)..(NextIn(d, i + 1, {">"}) - 1)
  ELSE {}

\* the hrefs the class attribute at k reaches that the rest matches
CoverArtHrefs(d, k) ==
  {h \in AnchorHrefs(d, k, "sound__coverArt") : HrefRelAt(d, h).ok}

\* r'<a[^>]*class="[^"]*sound__coverArt[^"]*"[^>]*href="/([^/]+)/([^/"]+)"'
\* Both [^>]* are greedy: the last class attribute, and then the last href,
\* that leave a match.
CoverArtAt(d, i) ==
  LET k == LastOr({c \in AnchorClasses(d, i) : CoverArtHrefs(d, c) # {}}, 0)
  IN  IF k = 0 THEN NoMatch ELSE HrefRelAt(d, LastOr(CoverArtHrefs(d, k), 0))

\* r'href="/([^/]+/[^?"#]+)' at h: no closing quote is asked for
StationHrefAt(d, h) ==
  LET b == NextIn(d, h + 3, {"/"})
      e == NextIn(d, b + 1, {"?", Q, "#"})
  IN  IF /\ h + 2 <= Len(d)
         /\ RunEndsWith(d[h], "href=") /\ d[h + 1] = Q /\ d[h + 2] = "/"
         /\ b > h + 3 /\ b <= Len(d)
         /\ e > b + 1
      THEN [ok |-> TRUE, end |-> e - 1, match |-> SubSeq(d, h + 3, e - 1)]
      ELSE NoMatch

TrackStationHrefs(d, k) ==
  {h \in AnchorHrefs(d, k, "trackItem__trackTitle") : StationHrefAt(d, h).ok}

\* r'<a[^>]*class="[^"]*trackItem__trackTitle[^"]*"[^>]*href="/([^/]+/[^?"#]+)'
TrackStationAt(d, i) ==
  LET k == LastOr({c \in AnchorClasses(d, i) : TrackStationHrefs(d, c) # {}}, 0)
  IN  IF k = 0 THEN NoMatch
      ELSE StationHrefAt(d, LastOr(TrackStationHrefs(d, k), 0))

\* rf'href="/([^/]+)/([^"]*{re.escape(slug)}[^"]*)"' with re.IGNORECASE,
\* at i
SlugHrefAt(d, i, slug) ==
  LET b == NextIn(d, i + 3, {"/"})
      v == NextIn(d, b + 1, {Q})
  IN  IF /\ i + 2 <= Len(d)
         /\ d[i] \notin Specials
         /\ EndsWith(Lower(Chars(d[i])), Chars("href="))
         /\ d[i + 1] = Q /\ d[i + 2] = "/"
         /\ b > i + 3 /\ b <= Len(d)
         /\ v <= Len(d)
         /\ Contains(Lower(Expand(SubSeq(d, b + 1, v - 1))), Lower(slug))
      THEN [ok |-> TRUE, end |-> v,
            artist_slug |-> SubSeq(d, i + 3, b - 1),
            track_slug |-> SubSeq(d, b + 1, v - 1)]
      ELSE NoMatch

\* re.search(..., html, re.IGNORECASE): the leftmost match
SlugHrefSearch(d, slug) ==
  LET i == FirstOr({k \in 1..Len(d) : SlugHrefAt(d, k, slug).ok}, 0)
  IN  IF i = 0 THEN NoMatch ELSE SlugHrefAt(d, i, slug)

(***************************************************************************)
(* Track records and the literals of the code                              *)
(***************************************************************************)
\* Python's None, as a value no str equals
None == <<"None">>

\* 'https://soundcloud.com/'
Host == Expand(<<"https:", "/", "/", "soundcloud.com", "/">>)

SetsPath == Expand(<<"/", "sets", "/">>)

PlaylistsPath == Expand(<<"/", "playlists", "/">>)

RepostsPath == Expand(<<"/", "reposts">>)

\* ['tracks', 'albums', 'sets', 'reposts', 'followers', 'following']
ReservedSlugs ==
  {Chars("tracks"), Chars("albums"), Chars("sets"), Chars("reposts"),
   Chars("followers"), Chars("following")}

\* ['/tracks', '/popular-tracks', '/albums', '/sets', '/playlists', '/reposts']
ProfilePages ==
  {Expand(<<"/", "tracks">>), Expand(<<"/", "popular-tracks">>),
   Expand(<<"/", "albums">>), Expand(<<"/", "sets">>),
   Expand(<<"/", "playlists">>), Expand(<<"/", "reposts">>)}

\* f"{artist} - {title}"
Dashed(artist, title) == artist \o <<" ", "-", " ">> \o title

\* the dict appended to tracks; thumbnail is None in every pass over HTML
TrackRecord(track_url, title, artist, fullTitle) ==
  [url |-> track_url, title |-> title, artist |-> artist,
   fullTitle |-> fullTitle, thumbnail |-> None]

\* slug.replace('-', ' ').replace('_', ' ').title()
DisplayName(slug) == Title(ReplaceChar(ReplaceChar(slug, "-", " "), "_", " "))

\* slug.replace('-', ' ').title()
ArtistName(slug) == Title(ReplaceChar(slug, "-", " "))

\* next((t for t in tracks if t['url'] == track_url), None)
Existing(tracks, track_url) == \E k \in 1..Len(tracks) : tracks[k].url = track_url

\* a membership test that never finds the url
NotSeenAlways(track_url, seen) == TRUE

\* track_url not in seen_urls; url not in seen (lines 171 and 328)
NotSeen(track_url, seen) == track_url \notin seen

\* the loops of a pass thread the pair (tracks, seen_urls)
Acc(tracks, seen) == [tracks |-> tracks, seen |-> seen]

(***************************************************************************)
(* scrape_profile                                                          *)
(***************************************************************************)
\* url.rstrip('/')
RStripSlash(u) == SubSeq(u, 1, LastOr({k \in 1..Len(u) : u[k] # "/"}, 0))

\* lines 22-36: both branches of the username test append '/tracks'
NormalizeProfileUrl(u) ==
  IF \E p \in ProfilePages : EndsWith(Expand(RStripSlash(u)), p)
  THEN RStripSlash(u)
  ELSE RStripSlash(u) \o <<"/", "tracks">>

\* re.search(r'soundcloud\.com/([^/]+)', url): group 1, or None
UrlOwner(u) ==
  LET i == FirstOr({k \in 1..(Len(u) - 2) :
                      /\ RunEndsWith(u[k], "soundcloud.com")
                      /\ u[k + 1] = "/" /\ u[k + 2] # "/"}, 0)
  IN  IF i = 0 THEN None
      ELSE Expand(SubSeq(u, i + 2, NextIn(u, i + 2, {"/"}) - 1))

\* lines 66-69: a relative match gets the host in front
AbsoluteUrl(match) ==
  IF ~StartsWith(match, Chars("http")) THEN Host \o match ELSE match

\* track_url.replace('https://soundcloud.com/', '').split('/')
UrlParts(track_url) == Split(RemoveSub(track_url, Host), "/")

\* len(url_parts) == 2 and url_parts[0] and url_parts[1]
TwoParts(url_parts) ==
  Len(url_parts) = 2 /\ url_parts[1] # <<>> /\ url_parts[2] # <<>>

\* lines 71-91, for one track_url
ProfileHrefAdd(track_url, url_parts, username, acc) ==
  IF \/ Contains(track_url, SetsPath)
     \/ Contains(track_url, PlaylistsPath)
     \/ Contains(track_url, RepostsPath)
  THEN acc
  ELSE IF TwoParts(url_parts) /\ NotSeen(track_url, acc.seen)
  THEN Acc(Append(acc.tracks,
                  TrackRecord(track_url, DisplayName(url_parts[2]),
                              IF username # None THEN ArtistName(username)
                              ELSE None,
                              IF username # None
                              THEN Dashed(ArtistName(username),
                                          DisplayName(url_parts[2]))
                              ELSE DisplayName(url_parts[2]))),
           acc.seen \cup {track_url})
  ELSE acc

\* the body of the loop of lines 64-91, for one match (a str)
ProfileHrefStep(match, username, acc) ==
  ProfileHrefAdd(AbsoluteUrl(match), UrlParts(AbsoluteUrl(match)), username, acc)

RECURSIVE ProfileHrefLoop(_, _, _, _)
ProfileHrefLoop(ms, k, username, acc) ==
  IF k > Len(ms) THEN acc
  ELSE ProfileHrefLoop(ms, k + 1, username,
                       ProfileHrefStep(Expand(ms[k].match), username, acc))

\* Method 1, lines 57-91: the full URLs, then the relative ones
ProfileHrefScan(d, username, acc) ==
  ProfileHrefLoop(
    FindAllFrom([k \in 1..Len(d) |-> HrefRelAt(d, k)], 1), 1, username,
    ProfileHrefLoop(FindAllFrom([k \in 1..Len(d) |-> HrefAbsAt(d, k)], 1), 1, username, acc))

\* the test of lines 120 and 146 on track_slug
IsNonTrackSlug(track_slug) ==
  \/ Contains(track_slug, SetsPath)
  \/ Contains(track_slug, PlaylistsPath)
  \/ track_slug \in ReservedSlugs

\* f"https://soundcloud.com/{artist_slug}/{track_slug}"
SlugUrl(m) == Host \o Expand(m.artist_slug) \o <<"/">> \o Expand(m.track_slug)

\* lines 125-136 and 151-166: the URL is marked seen, and the record
\* appended unless tracks already holds the URL
AddUnlessExisting(track_url, title, artist, acc) ==
  Acc(IF ~Existing(acc.tracks, track_url)
      THEN Append(acc.tracks,
                  TrackRecord(track_url, title, artist, Dashed(artist, title)))
      ELSE acc.tracks,
      acc.seen \cup {track_url})

\* lines 118-137: the hrefs of the window, up to the first one not seen
RECURSIVE ProfileLabelHrefs(_, _, _, _, _)
ProfileLabelHrefs(hs, k, track_name_clean, artist, acc) ==
  IF k > Len(hs) THEN acc
  ELSE IF \/ IsNonTrackSlug(Expand(hs[k].track_slug))
          \/ ~NotSeen(SlugUrl(hs[k]), acc.seen)
  THEN ProfileLabelHrefs(hs, k + 1, track_name_clean, artist, acc)
  ELSE AddUnlessExisting(SlugUrl(hs[k]), track_name_clean, artist, acc)

\* html[max(0, aria_pos - 1000) : min(len(html), aria_pos + 1000)], as the
\* pair of its ends; total is len(html)
Context(aria_pos, total) ==
  [start |-> IF aria_pos - Window > 0 THEN aria_pos - Window ELSE 0,
   end |-> IF aria_pos + Window < total THEN aria_pos + Window ELSE total]

\* lines 103-137, for one (track_name, artist_name) of sound_items
ProfileLabelStep(d, off, item, acc) ==
  LET aria_pos == FindLabel(d, off, item.track_name)
      context == Context(aria_pos, off[Len(d) + 1])
  IN  IF aria_pos = -1 THEN acc
      ELSE ProfileLabelHrefs(
             FindAllFrom([k \in 1..Len(d) |->
                            Within(off, k, HrefRelAt(d, k), context.start, context.end)],
                         1),
             1, Strip(Expand(item.track_name)), Strip(Expand(item.artist_name)), acc)

RECURSIVE ProfileLabelLoop(_, _, _, _, _)
ProfileLabelLoop(d, off, items, k, acc) ==
  IF k > Len(items) THEN acc
  ELSE ProfileLabelLoop(d, off, items, k + 1,
                        ProfileLabelStep(d, off, items[k], acc))

\* Method 2, lines 96-137
ProfileSoundList(d, acc) ==
  ProfileLabelLoop(d, Offsets(d),
                   FindAllFrom([k \in 1..Len(d) |-> ProfileSoundItemAt(d, k)], 1), 1, acc)

\* the body of the loop of lines 144-166, for one match
CoverArtStep(m, acc) ==
  IF IsNonTrackSlug(Expand(m.track_slug)) \/ ~NotSeen(SlugUrl(m), acc.seen)
  THEN acc
  ELSE AddUnlessExisting(SlugUrl(m), DisplayName(Expand(m.track_slug)),
                         ArtistName(Expand(m.artist_slug)), acc)

RECURSIVE CoverArtLoop(_, _, _)
CoverArtLoop(ms, k, acc) ==
  IF k > Len(ms) THEN acc ELSE CoverArtLoop(ms, k + 1, CoverArtStep(ms[k], acc))

\* Method 3, lines 141-166
ProfileCoverArt(d, acc) ==
  CoverArtLoop(FindAllFrom([k \in 1..Len(d) |-> CoverArtAt(d, k)], 1), 1, acc)

\* lines 169-174 and 326-331: the first record of every url, in order
RECURSIVE UniqueFrom(_, _, _)
UniqueFrom(tracks, k, seen) ==
  IF k > Len(tracks) THEN <<>>
  ELSE IF NotSeen(tracks[k].url, seen)
  THEN <<tracks[k]>> \o UniqueFrom(tracks, k + 1, seen \cup {tracks[k].url})
  ELSE UniqueFrom(tracks, k + 1, seen)

UniqueTracks(tracks) == UniqueFrom(tracks, 1, {})

\* what the functions return: a list of records, or a dict with 'error'
ListResult(ts) == [list |-> ts]

ErrorResult(msg) == [error |-> msg]

IsList(r) == DOMAIN r = {"list"}

IsError(r) == DOMAIN r = {"error"}

\* a return without the test for the empty list
ReturnList(tracks) == ListResult(UniqueTracks(tracks))

\* lines 168-176 and 325-333:
\* return unique_tracks if unique_tracks else {'error': 'No tracks found'}
ReturnValue(tracks) ==
  IF UniqueTracks(tracks) # <<>> THEN ListResult(UniqueTracks(tracks))
  ELSE ErrorResult("No tracks found")

(***************************************************************************)
(* scrape_playlist                                                         *)
(***************************************************************************)
\* lines 247-258: the record of methods 0 and 2 of scrape_playlist
SlugRecord(track_url, url_parts) ==
  TrackRecord(track_url, DisplayName(url_parts[2]), ArtistName(url_parts[1]),
              Dashed(ArtistName(url_parts[1]), DisplayName(url_parts[2])))

\* lines 244-258, for one cleaned match: the URL is marked seen before its
\* parts are counted
TrackStationAdd(track_url, url_parts, acc) ==
  IF /\ NotSeen(track_url, acc.seen)
     /\ ~Contains(track_url, SetsPath)
     /\ ~Contains(track_url, PlaylistsPath)
  THEN Acc(IF TwoParts(url_parts)
           THEN Append(acc.tracks, SlugRecord(track_url, url_parts))
           ELSE acc.tracks,
           acc.seen \cup {track_url})
  ELSE acc

\* the body of the loop of lines 241-258, for one match (a str)
TrackStationStep(match, acc) ==
  TrackStationAdd(Host \o SplitFirst(match, "?"),
                  Split(SplitFirst(match, "?"), "/"), acc)

RECURSIVE TrackStationLoop(_, _, _)
TrackStationLoop(ms, k, acc) ==
  IF k > Len(ms) THEN acc
  ELSE TrackStationLoop(ms, k + 1, TrackStationStep(Expand(ms[k].match), acc))

\* Method 0, lines 239-258
PlaylistTrackStation(d, acc) ==
  TrackStationLoop(FindAllFrom([k \in 1..Len(d) |-> TrackStationAt(d, k)], 1), 1, acc)

\* track_name_slug[:30]
SlugPrefix == 30

\* line 267: track_name.lower().replace(' ', '-').replace('(', '')
\*             .replace(')', '').replace('.', '').replace('mp3', '')
TrackNameSlug(track_name) ==
  RemoveSub(
    RemoveChar(RemoveChar(RemoveChar(
      ReplaceChar(Lower(track_name), " ", "-"), "("), ")"), "."),
    Chars("mp3"))

\* lines 271-284, given href_match
PlaylistLabelAdd(href_match, track_name, artist_name, acc) ==
  IF /\ href_match.ok
     /\ NotSeen(SlugUrl(href_match), acc.seen)
     /\ ~Contains(SlugUrl(href_match), SetsPath)
     /\ ~Contains(SlugUrl(href_match), PlaylistsPath)
  THEN Acc(Append(acc.tracks,
                  TrackRecord(SlugUrl(href_match), Strip(track_name),
                              Strip(artist_name),
                              Dashed(Strip(artist_name), Strip(track_name)))),
           acc.seen \cup {SlugUrl(href_match)})
  ELSE acc

\* lines 267-284, for one (track_name, artist_name) of sound_items
PlaylistLabelStep(d, item, acc) ==
  PlaylistLabelAdd(
    SlugHrefSearch(d, Take(TrackNameSlug(Expand(item.track_name)), SlugPrefix)),
    Expand(item.track_name), Expand(item.artist_name), acc)

RECURSIVE PlaylistLabelLoop(_, _, _, _)
PlaylistLabelLoop(d, items, k, acc) ==
  IF k > Len(items) THEN acc
  ELSE PlaylistLabelLoop(d, items, k + 1, PlaylistLabelStep(d, items[k], acc))

\* Method 1, lines 262-284
PlaylistSoundList(d, acc) ==
  PlaylistLabelLoop(d, FindAllFrom([k \in 1..Len(d) |-> PlaylistSoundItemAt(d, k)], 1),
                    1, acc)

\* lines 296-302: the query string is cut, a relative match gets the host
CleanUrl(match) ==
  IF ~StartsWith(match, Chars("http")) THEN Host \o SplitFirst(match, "?")
  ELSE SplitFirst(match, "?")

\* the same loop body without the seen_urls test
PlaylistHrefAddAgain(track_url, url_parts, acc) ==
  IF Contains(track_url, SetsPath) \/ Contains(track_url, PlaylistsPath)
  THEN acc
  ELSE IF TwoParts(url_parts)
  THEN Acc(Append(acc.tracks, SlugRecord(track_url, url_parts)),
           acc.seen \cup {track_url})
  ELSE acc

\* lines 304-323, for one track_url
PlaylistHrefAdd(track_url, url_parts, acc) ==
  IF Contains(track_url, SetsPath) \/ Contains(track_url, PlaylistsPath)
  THEN acc
  ELSE IF TwoParts(url_parts) /\ NotSeen(track_url, acc.seen)
  THEN Acc(Append(acc.tracks, SlugRecord(track_url, url_parts)),
           acc.seen \cup {track_url})
  ELSE acc

\* the body of the loop of lines 294-323, for one match (a str)
PlaylistHrefStep(match, acc) ==
  PlaylistHrefAdd(CleanUrl(match), UrlParts(CleanUrl(match)), acc)

RECURSIVE PlaylistHrefLoop(_, _, _)
PlaylistHrefLoop(ms, k, acc) ==
  IF k > Len(ms) THEN acc
  ELSE PlaylistHrefLoop(ms, k + 1, PlaylistHrefStep(Expand(ms[k].match), acc))

\* Method 2, lines 287-323: the full URLs, then the relative ones
PlaylistHrefScan(d, acc) ==
  PlaylistHrefLoop(
    FindAllFrom([k \in 1..Len(d) |-> HrefRelAt(d, k)], 1), 1,
    PlaylistHrefLoop(FindAllFrom([k \in 1..Len(d) |-> HrefAbsAt(d, k)], 1), 1, acc))

NoTracks == Acc(<<>>, {})

(***************************************************************************)
(* Inputs: the pages the fetch may return and the command lines            *)
(***************************************************************************)
HrefAttr(path) == <<"href=", Q>> \o path \o <<Q>>

ClassAttr(c) == <<"class=", Q, c, Q>>

LabelAttr(name, artist) ==
  <<"aria-label=", Q, "Track:", " ">> \o name \o <<" ", "by", " ">> \o artist \o <<Q>>

Tag(name, attrs) == <<"<", name, " ">> \o attrs \o <<">">>

SoundItem(attrs) ==
  Tag("li", ClassAttr("soundList__item")) \o Tag("a", attrs) \o <<"<", "/", "li", ">">>

SongPath == <<"/", "dj-x", "/", "my-song">>

SongLabel == LabelAttr(<<"My", " ", "Song">>, <<"DJ", " ", "X">>)

\* the pieces a page is made of
Fragments ==
  { \* <a href="/dj-x/my-song">
    Tag("a", HrefAttr(SongPath)),
    \* <a href="https://soundcloud.com/dj-x/my-song">
    Tag("a", HrefAttr(<<"https:", "/", "/", "soundcloud.com">> \o SongPath)),
    \* <a href="/me/tracks">: a profile-page link
    Tag("a", HrefAttr(<<"/", "me", "/", "tracks">>)),
    \* <a href="/me/my_song">
    Tag("a", HrefAttr(<<"/", "me", "/", "my_song">>)),
    \* <link href="/x">: one path segment
    Tag("link", HrefAttr(<<"/", "x">>)),
    \* <a class="sound__coverArt" href="/dj-x/my-song">
    Tag("a", ClassAttr("sound__coverArt") \o <<" ">> \o HrefAttr(SongPath)),
    \* <a class="sound__coverArt" href="/sets/mix">
    Tag("a", ClassAttr("sound__coverArt") \o <<" ">>
               \o HrefAttr(<<"/", "sets", "/", "mix">>)),
    \* <a class="trackItem__trackTitle" href="/dj-x/my-song?in=1">
    Tag("a", ClassAttr("trackItem__trackTitle") \o <<" ">>
               \o HrefAttr(SongPath \o <<"?", "in=1">>)),
    \* <a class="trackItem__trackTitle" href="/dj-x/my-song/likes">
    Tag("a", ClassAttr("trackItem__trackTitle") \o <<" ">>
               \o HrefAttr(SongPath \o <<"/", "likes">>)),
    \* <li class="soundList__item"><a aria-label="Track: My Song by DJ X"
    \*    href="/dj-x/my-song"></li>
    SoundItem(SongLabel \o <<" ">> \o HrefAttr(SongPath)),
    \* the same item, its href with a query string
    SoundItem(SongLabel \o <<" ">> \o HrefAttr(SongPath \o <<"?", "in=1">>)),
    \* the same item, its href with a third path segment
    SoundItem(SongLabel \o <<" ">> \o HrefAttr(SongPath \o <<"/", "likes">>)),
    \* an item whose artist text is blank, its href a reposts page
    SoundItem(LabelAttr(<<"My", " ", "Song">>, <<" ">>) \o <<" ">>
                \o HrefAttr(<<"/", "dj-x", "/", "reposts-mix">>)),
    \* an item without any href
    SoundItem(LabelAttr(<<"mix">>, <<"X">>)),
    \* text longer than the window of method 2
    <<Filler, " ">>,
    <<"nothing", " ">> }

\* a page holds at most MaxFragments fragments
MaxFragments == 2

RECURSIVE PagesOf(_)
PagesOf(n) ==
  IF n = 0 THEN {<<>>}
  ELSE PagesOf(n - 1)
         \cup {p \o f : p \in PagesOf(n - 1), f \in Fragments}

Pages == PagesOf(MaxFragments)

ProfileUrls ==
  { <<"https:", "/", "/", "soundcloud.com", "/", "me">>,
    <<"https:", "/", "/", "soundcloud.com", "/", "dj-x", "/">>,
    <<"http:", "/", "/", "localhost", "/", "x">> }

PlaylistUrls == { <<"https:", "/", "/", "soundcloud.com", "/", "me", "/", "sets", "/", "mix">> }

\* sys.argv[1], sys.argv[2]
CommandLines ==
  ({"profile"} \X ProfileUrls) \cup ({"playlist", "album"} \X PlaylistUrls)

\* str(e) of what urlopen raises
FetchErrors == {"<urlopen error timed out>", "HTTP Error 404: Not Found"}

(***************************************************************************)
(* extract_tracks_from_hydration: Python values                            *)
(***************************************************************************)
\* a str, None, a dict (its keys in insertion order, with their values), a
\* list and, for the values that are shared or cyclic, a reference to an
\* object of the heap
PyStr(s) == [type |-> "str", s |-> s]

PyNone == [type |-> "NoneType"]

PyDict(keys, vals) == [type |-> "dict", keys |-> keys, vals |-> vals]

PyList(items) == [type |-> "list", items |-> items]

PyRef(n) == [type |-> "ref", node |-> n]

\* the object a value denotes
Deref(heap, v) == IF v.type = "ref" THEN heap[v.node] ELSE v

\* key in obj
HasKey(obj, key) == \E i \in 1..Len(obj.keys) : obj.keys[i] = key

\* obj.get(key, default)
Get(obj, key, default) ==
  IF HasKey(obj, key)
  THEN obj.vals[CHOOSE i \in 1..Len(obj.keys) : obj.keys[i] = key]
  ELSE default

\* bool(v)
Truthy(v) ==
  CASE v.type = "str" -> v.s # <<>>
    [] v.type = "dict" -> v.keys # <<>>
    [] v.type = "list" -> v.items # <<>>
    [] v.type = "NoneType" -> FALSE

\* a or b
Or(a, b) == IF Truthy(a) THEN a ELSE b

\* a str or None as the records of the scraper hold them
Plain(v) == IF v.type = "str" THEN v.s ELSE None

\* if depth > 10, line 186
MaxDepth == 10

\* the guard one level late
DepthExceededLate(depth) == depth > MaxDepth + 1

DepthExceeded(depth) == depth > MaxDepth

\* obj.get('permalink_url') or obj.get('uri', ''), line 192
UrlOf(obj) == Or(Get(obj, "permalink_url", PyNone), Get(obj, "uri", PyStr(<<>>)))

\* line 193
IsTrackUrl(u) ==
  /\ Truthy(u)
  /\ Contains(u.s, Chars("soundcloud.com"))
  /\ ~Contains(u.s, SetsPath)
  /\ ~Contains(u.s, PlaylistsPath)

\* obj.get('user', {}), line 195
UserOf(heap, obj) == Deref(heap, Get(obj, "user", PyDict(<<>>, <<>>)))

\* user.get('username', '') if user else None, line 196
HydrationArtist(user) ==
  IF Truthy(user) THEN Get(user, "username", PyStr(<<>>)) ELSE PyNone

\* f"{artist} - {title}" if artist else title, line 202
HydrationFullTitle(artist, title) ==
  IF Truthy(artist) THEN Dashed(artist.s, title.s) ELSE title.s

\* lines 198-204
HydrationRecord(obj, url, title, user) ==
  [url |-> url.s, title |-> title.s, artist |-> Plain(HydrationArtist(user)),
   fullTitle |-> HydrationFullTitle(HydrationArtist(user), title),
   thumbnail |-> Plain(Or(Get(obj, "artwork_url", PyNone),
                          IF Truthy(user) THEN Get(user, "avatar_url", PyNone)
                          ELSE PyNone))]

\* lines 190-204: tracks after search_dict has looked at the dict obj
HydrationVisit(heap, obj, tracks) ==
  IF /\ HasKey(obj, "permalink_url") \/ HasKey(obj, "uri")
     /\ IsTrackUrl(UrlOf(obj))
  THEN Append(tracks,
              HydrationRecord(obj, UrlOf(obj),
                              Get(obj, "title", PyStr(Expand(<<"Unknown", " ", "Track">>))),
                              UserOf(heap, obj)))
  ELSE tracks

\* obj.values() or the items of a list
Children(obj) == IF obj.type = "dict" THEN obj.vals ELSE obj.items

(***************************************************************************)
(* Inputs of extract_tracks_from_hydration                                 *)
(***************************************************************************)
SongUrl == Expand(<<"https:", "/", "/", "soundcloud.com">> \o SongPath)

\* the objects of the heap are numbered 1..MaxObjects
MaxObjects == 2

\* what an object holds besides its own fields: nothing, or one reference
\* to an object of a heap of n objects (itself included)
Nested(n) == {<<>>} \cup {<<PyRef(k)>> : k \in 1..n}

\* the shapes of an object, given the references it holds (each under the
\* key 'next' when the object is a dict)
Shapes(refs) ==
  { \* a track with a user
    PyDict(<<"permalink_url", "title", "user">> \o [i \in 1..Len(refs) |-> "next"],
           <<PyStr(SongUrl), PyStr(Expand(<<"My", " ", "Song">>)),
             PyDict(<<"username">>, <<PyStr(Expand(<<"DJ", " ", "X">>))>>)>> \o refs),
    \* a track known by its uri, its user without a name
    PyDict(<<"uri", "user">> \o [i \in 1..Len(refs) |-> "next"],
           <<PyStr(SongUrl), PyDict(<<"username">>, <<PyStr(<<>>)>>)>> \o refs),
    \* a playlist
    PyDict(<<"permalink_url", "title">> \o [i \in 1..Len(refs) |-> "next"],
           <<PyStr(Expand(<<"https:", "/", "/", "soundcloud.com", "/", "me",
                            "/", "sets", "/", "mix">>)),
             PyStr(Expand(<<"mix">>))>> \o refs),
    \* a dict that is no track
    PyDict([i \in 1..Len(refs) |-> "next"], refs),
    \* a list
    PyList(refs) }

\* the heaps of at most MaxObjects objects; data is object 1
HydrationInputs ==
  UNION {[1..n -> UNION {Shapes(refs) : refs \in Nested(n)}] : n \in 1..MaxObjects}

(***************************************************************************)
(* The program: main, then the steps of scrape_profile or scrape_playlist, *)
(* and the calls of search_dict                                            *)
(***************************************************************************)
VARIABLES
  scrape_type,   \* sys.argv[1]
  url,           \* sys.argv[2]
  page,          \* what the server holds at the URL
  pc,            \* where the run is
  html,          \* the fetched text
  username,      \* scrape_profile's username, scrape_playlist's owner
  tracks,        \* the running list of records
  seen_urls,     \* the running set of URLs
  result,        \* what main prints, what extract_tracks_from_hydration returns
  data,          \* the heap extract_tracks_from_hydration is given
  stack          \* the calls of search_dict in progress

vars ==
  <<scrape_type, url, page, pc, html, username, tracks, seen_urls, result,
    data, stack>>

NotReturned == [pending |-> TRUE]

Inputs == <<scrape_type, url, page>>

Init ==
  /\ \E c \in CommandLines : scrape_type = c[1] /\ url = c[2]
  /\ page \in Pages
  /\ pc = "main"
  /\ html = <<>>
  /\ username = None
  /\ tracks = <<>>
  /\ seen_urls = {}
  /\ result = NotReturned
  /\ data = <<>>
  /\ stack = <<>>

\* lines 22-53: the URL is normalised, the page fetched, the username read
ProfileFetch ==
  /\ pc = "main" /\ scrape_type = "profile"
  /\ html' = page
  /\ username' = UrlOwner(NormalizeProfileUrl(url))
  /\ tracks' = <<>> /\ seen_urls' = {}
  /\ pc' = "profile_method1"
  /\ UNCHANGED <<Inputs, result, data, stack>>

\* lines 219-234
PlaylistFetch ==
  /\ pc = "main" /\ scrape_type = "playlist"
  /\ html' = page
  /\ username' = UrlOwner(url)
  /\ tracks' = <<>> /\ seen_urls' = {}
  /\ pc' = "playlist_method0"
  /\ UNCHANGED <<Inputs, result, data, stack>>

\* urlopen raises: lines 178-179 and 335-336
FetchFails ==
  /\ pc = "main" /\ scrape_type \in {"profile", "playlist"}
  /\ \E e \in FetchErrors : result' = ErrorResult(e)
  /\ pc' = "done"
  /\ UNCHANGED <<Inputs, html, username, seen_urls, tracks, data, stack>>

\* lines 350-351
UnknownType ==
  /\ pc = "main" /\ scrape_type \notin {"profile", "playlist"}
  /\ result' = ErrorResult(<<"Unknown type: ", scrape_type>>)
  /\ pc' = "done"
  /\ UNCHANGED <<Inputs, html, username, seen_urls, tracks, data, stack>>

\* lines 57-91
ProfileMethod1 ==
  /\ pc = "profile_method1"
  /\ \E acc \in {ProfileHrefScan(html, username, Acc(tracks, seen_urls))} :
       tracks' = acc.tracks /\ seen_urls' = acc.seen
  /\ pc' = "profile_method2"
  /\ UNCHANGED <<Inputs, html, username, result, data, stack>>

\* lines 96-137
ProfileMethod2 ==
  /\ pc = "profile_method2"
  /\ \E acc \in {ProfileSoundList(html, Acc(tracks, seen_urls))} :
       tracks' = acc.tracks /\ seen_urls' = acc.seen
  /\ pc' = "profile_method3"
  /\ UNCHANGED <<Inputs, html, username, result, data, stack>>

\* lines 141-166
ProfileMethod3 ==
  /\ pc = "profile_method3"
  /\ \E acc \in {ProfileCoverArt(html, Acc(tracks, seen_urls))} :
       tracks' = acc.tracks /\ seen_urls' = acc.seen
  /\ pc' = "profile_return"
  /\ UNCHANGED <<Inputs, html, username, result, data, stack>>

\* lines 239-258
PlaylistMethod0 ==
  /\ pc = "playlist_method0"
  /\ \E acc \in {PlaylistTrackStation(html, Acc(tracks, seen_urls))} :
       tracks' = acc.tracks /\ seen_urls' = acc.seen
  /\ pc' = "playlist_method1"
  /\ UNCHANGED <<Inputs, html, username, result, data, stack>>

\* lines 262-284
PlaylistMethod1 ==
  /\ pc = "playlist_method1"
  /\ \E acc \in {PlaylistSoundList(html, Acc(tracks, seen_urls))} :
       tracks' = acc.tracks /\ seen_urls' = acc.seen
  /\ pc' = "playlist_method2"
  /\ UNCHANGED <<Inputs, html, username, result, data, stack>>

\* lines 287-323
PlaylistMethod2 ==
  /\ pc = "playlist_method2"
  /\ \E acc \in {PlaylistHrefScan(html, Acc(tracks, seen_urls))} :
       tracks' = acc.tracks /\ seen_urls' = acc.seen
  /\ pc' = "playlist_return"
  /\ UNCHANGED <<Inputs, html, username, result, data, stack>>

\* lines 168-176 and 325-333
Return ==
  /\ pc \in {"profile_return", "playlist_return"}
  /\ result' = ReturnValue(tracks)
  /\ pc' = "done"
  /\ UNCHANGED <<Inputs, html, username, seen_urls, tracks, data, stack>>

Next ==
  \/ ProfileFetch
  \/ PlaylistFetch
  \/ FetchFails
  \/ UnknownType
  \/ ProfileMethod1
  \/ ProfileMethod2
  \/ ProfileMethod3
  \/ PlaylistMethod0
  \/ PlaylistMethod1
  \/ PlaylistMethod2
  \/ Return

Spec == Init /\ [][Next]_vars

(***************************************************************************)
(* extract_tracks_from_hydration(data): the calls of search_dict are the   *)
(* frames of stack, the last one the call that runs.  A frame holds obj,   *)
(* depth and next: 0 when the call has just been made, else the place in   *)
(* obj.values() (or in the list) of the value the loop takes next.         *)
(***************************************************************************)
Frame(obj, depth, next) == [obj |-> obj, depth |-> depth, next |-> next]

Top == stack[Len(stack)]

Pop == SubSeq(stack, 1, Len(stack) - 1)

Running == pc = "search_dict" /\ stack # <<>>

HydrationInit ==
  /\ scrape_type = "hydration" /\ url = <<>> /\ page = <<>>
  /\ html = <<>> /\ username = None /\ seen_urls = {}
  /\ data \in HydrationInputs
  /\ pc = "extract_tracks_from_hydration"
  /\ tracks = <<>>
  /\ stack = <<>>
  /\ result = NotReturned

\* lines 183 and 213: tracks = [], search_dict(data)
Extract ==
  /\ pc = "extract_tracks_from_hydration"
  /\ tracks' = <<>>
  /\ stack' = <<Frame(data[1], 0, 0)>>
  /\ pc' = "search_dict"
  /\ UNCHANGED <<Inputs, html, username, seen_urls, result, data>>

\* lines 186-187: if depth > 10: return
DepthCutoff ==
  /\ Running /\ Top.next = 0
  /\ DepthExceeded(Top.depth)
  /\ stack' = Pop
  /\ UNCHANGED <<Inputs, html, username, seen_urls, pc, tracks, result, data>>

\* lines 189-204: a dict, a record appended when it is track-like
VisitDict ==
  /\ Running /\ Top.next = 0
  /\ ~DepthExceeded(Top.depth)
  /\ Top.obj.type = "dict"
  /\ tracks' = HydrationVisit(data, Top.obj, tracks)
  /\ stack' = Append(Pop, Frame(Top.obj, Top.depth, 1))
  /\ UNCHANGED <<Inputs, html, username, seen_urls, pc, result, data>>

\* line 209
VisitList ==
  /\ Running /\ Top.next = 0
  /\ ~DepthExceeded(Top.depth)
  /\ Top.obj.type = "list"
  /\ stack' = Append(Pop, Frame(Top.obj, Top.depth, 1))
  /\ UNCHANGED <<Inputs, html, username, seen_urls, pc, tracks, result, data>>

\* neither a dict nor a list: the call returns
VisitOther ==
  /\ Running /\ Top.next = 0
  /\ ~DepthExceeded(Top.depth)
  /\ Top.obj.type \notin {"dict", "list"}
  /\ stack' = Pop
  /\ UNCHANGED <<Inputs, html, username, seen_urls, pc, tracks, result, data>>

\* lines 207-208 and 210-211: search_dict(value, depth + 1)
Descend ==
  /\ Running /\ Top.next > 0
  /\ Top.next <= Len(Children(Top.obj))
  /\ stack' = Append(Append(Pop, Frame(Top.obj, Top.depth, Top.next + 1)),
                     Frame(Deref(data, Children(Top.obj)[Top.next]),
                           Top.depth + 1, 0))
  /\ UNCHANGED <<Inputs, html, username, seen_urls, pc, tracks, result, data>>

\* the loop is over: the call returns
LoopEnd ==
  /\ Running /\ Top.next > 0
  /\ Top.next > Len(Children(Top.obj))
  /\ stack' = Pop
  /\ UNCHANGED <<Inputs, html, username, seen_urls, pc, tracks, result, data>>

\* line 214: return tracks
HydrationReturn ==
  /\ pc = "search_dict" /\ stack = <<>>
  /\ result' = ListResult(tracks)
  /\ pc' = "done"
  /\ UNCHANGED <<Inputs, html, username, seen_urls, tracks, data, stack>>

HydrationNext ==
  \/ Extract
  \/ DepthCutoff
  \/ VisitDict
  \/ VisitList
  \/ VisitOther
  \/ Descend
  \/ LoopEnd
  \/ HydrationReturn

\* the interpreter runs the function to its end: a step that can be taken
\* is taken
HydrationSpec ==
  HydrationInit /\ [][HydrationNext]_vars /\ WF_vars(HydrationNext)

(***************************************************************************)
(* Properties of the extraction                                            *)
(***************************************************************************)
\* the urls of a list of records
Urls(ts) == {ts[k].url : k \in 1..Len(ts)}

IsPrefix(s, t) == Len(s) <= Len(t) /\ SubSeq(t, 1, Len(s)) = s

\* scrape_profile or scrape_playlist has returned a list
ReturnedList ==
  pc = "done" /\ scrape_type \in {"profile", "playlist"} /\ IsList(result)

\* what follows the host in a url, and its segments
AfterHost(u) ==
  IF StartsWith(u, Host) THEN SubSeq(u, Len(Host) + 1, Len(u)) ELSE u

Segments(u) == Split(AfterHost(u), "/")

\* the matches of the relative-href pattern in a page
RelativeHrefs(d) == FindAllFrom([k \in 1..Len(d) |-> HrefRelAt(d, k)], 1)

\* C1: when scrape_profile or scrape_playlist returns a list, no two records
\* of the list have the same url.
NoDuplicateUrls ==
  ReturnedList =>
    \A i, j \in 1..Len(result.list) :
      result.list[i].url = result.list[j].url => i = j

\* a list is returned for a page that holds the same href twice, the url in
\* the list
SameHrefTwiceReturned ==
  /\ ReturnedList
  /\ \E i, j \in 1..Len(RelativeHrefs(html)) :
       /\ i < j
       /\ RelativeHrefs(html)[i].match = RelativeHrefs(html)[j].match
       /\ AbsoluteUrl(Expand(RelativeHrefs(html)[i].match)) \in Urls(result.list)

\* the path of the url contains /sets/, /playlists/ or /reposts, or its
\* second segment is a reserved keyword
ExcludedUrl(u) ==
  \/ Contains(<<"/">> \o AfterHost(u), SetsPath)
  \/ Contains(<<"/">> \o AfterHost(u), PlaylistsPath)
  \/ Contains(<<"/">> \o AfterHost(u), RepostsPath)
  \/ Len(Segments(u)) >= 2 /\ Segments(u)[2] \in ReservedSlugs

\* C2: no record returned by scrape_profile or scrape_playlist has a url
\* whose path contains /sets/, /playlists/ or /reposts, or whose second path
\* segment is one of tracks, albums, sets, reposts, followers, following.
NoExcludedUrlReturned ==
  ReturnedList => \A k \in 1..Len(result.list) : ~ExcludedUrl(result.list[k].url)

\* the passes of an extraction, in the order they run
Passes == 1..3

\* the records pass n yields when it runs alone on the fetched page
PassAlone(n) ==
  IF scrape_type = "profile"
  THEN CASE n = 1 -> ProfileHrefScan(html, username, NoTracks).tracks
         [] n = 2 -> ProfileSoundList(html, NoTracks).tracks
         [] n = 3 -> ProfileCoverArt(html, NoTracks).tracks
  ELSE CASE n = 1 -> PlaylistTrackStation(html, NoTracks).tracks
         [] n = 2 -> PlaylistSoundList(html, NoTracks).tracks
         [] n = 3 -> PlaylistHrefScan(html, NoTracks).tracks

Discovers(n, u) == u \in Urls(PassAlone(n))

\* the urls two or more passes discover
DiscoveredTwice ==
  LET found == [n \in Passes |-> Urls(PassAlone(n))]
  IN  UNION {found[p[1]] \cap found[p[2]] :
               p \in {q \in Passes \X Passes : q[1] < q[2]}}

EarliestPass(u) ==
  CHOOSE n \in Passes : Discovers(n, u) /\ \A m \in 1..(n - 1) : ~Discovers(m, u)

\* the first record of ts with the url u
RecordOf(ts, u) ==
  ts[CHOOSE k \in 1..Len(ts) :
       ts[k].url = u /\ \A j \in 1..(k - 1) : ts[j].url # u]

Occurrences(ts, u) == Cardinality({k \in 1..Len(ts) : ts[k].url = u})

\* the running list after passes 1..n of the extraction (none: n = 0)
RunThrough(n) ==
  IF scrape_type = "profile"
  THEN CASE n = 0 -> <<>>
         [] n = 1 -> PassAlone(1)
         [] n = 2 -> ProfileSoundList(html,
                       ProfileHrefScan(html, username, NoTracks)).tracks
         [] n = 3 -> ProfileCoverArt(html,
                       ProfileSoundList(html,
                         ProfileHrefScan(html, username, NoTracks))).tracks
  ELSE CASE n = 0 -> <<>>
         [] n = 1 -> PassAlone(1)
         [] n = 2 -> PlaylistSoundList(html,
                       PlaylistTrackStation(html, NoTracks)).tracks
         [] n = 3 -> PlaylistHrefScan(html,
                       PlaylistSoundList(html,
                         PlaylistTrackStation(html, NoTracks))).tracks

\* the output holds one record for u: the one the earliest pass that
\* discovers u has appended to the running list
EarliestRecordKept(list, u) ==
  /\ Occurrences(list, u) = 1
  /\ u \notin Urls(RunThrough(EarliestPass(u) - 1))
  /\ u \in Urls(RunThrough(EarliestPass(u)))
  /\ RecordOf(list, u) = RecordOf(RunThrough(EarliestPass(u)), u)

\* a step keeps the records the list holds and appends only urls the list
\* does not hold; the list returned is the running list, with one record
\* for a url two passes discover, the record the earliest of them appended
FirstPassWinsStep ==
  /\ IsPrefix(tracks, tracks')
  /\ \A k \in (Len(tracks) + 1)..Len(tracks') :
       tracks'[k].url \notin Urls(SubSeq(tracks', 1, k - 1))
  /\ (pc' = "done" /\ IsList(result')) =>
       /\ result'.list = tracks
       /\ \A u \in DiscoveredTwice : EarliestRecordKept(result'.list, u)

\* C3: a url that two or more passes of one extraction discover has exactly
\* one record in the output, the one built by the earliest of these passes;
\* later passes neither replace it nor add a second record.
FirstPassWins == [][FirstPassWinsStep]_vars

\* a list is returned that holds a url two passes discover, and a later
\* pass would have built another record for it
LaterPassSkipped ==
  /\ ReturnedList
  /\ \E u \in DiscoveredTwice :
       \E n \in Passes :
         /\ Discovers(n, u)
         /\ RecordOf(PassAlone(n), u) # RecordOf(result.list, u)

\* https://soundcloud.com/{artistSlug}/{trackSlug}: two non-empty segments
\* after the host and nothing else
Canonical(u) ==
  /\ StartsWith(u, Host)
  /\ TwoParts(Segments(u))
  /\ \A k \in 1..Len(u) : u[k] \notin {"?", "#", Q, " ", "<", ">"}

\* C4: every record returned by scrape_profile or scrape_playlist has a url
\* of the form https://soundcloud.com/{artistSlug}/{trackSlug}: exactly two
\* non-empty path segments after the host and nothing else.
CanonicalUrlsReturned ==
  ReturnedList => \A k \in 1..Len(result.list) : Canonical(result.list[k].url)

\* C5: no record returned by scrape_playlist has a url that contains '?':
\* an href with a query string is stored with the query string cut.
QueryStringsStripped ==
  (ReturnedList /\ scrape_type = "playlist") =>
    \A k \in 1..Len(result.list) : ~Contains(result.list[k].url, <<"?">>)

\* a step returns no empty list, and the return of scrape_profile or
\* scrape_playlist is the error when no pass has yielded a record
NoTracksFoundStep ==
  /\ IsList(result') => result'.list # <<>>
  /\ (pc \in {"profile_return", "playlist_return"} /\ pc' = "done") =>
       IF tracks = <<>> THEN result' = ErrorResult("No tracks found")
       ELSE IsList(result')

\* C6: when the fetch succeeds and no pass yields a record the result is
\* the error 'No tracks found'; no empty list is ever returned.
NoTracksFound == [][NoTracksFoundStep]_vars

\* a page that is not empty has been fetched and searched, no pass has
\* yielded a record and the error is returned
NothingFoundInPage ==
  /\ pc = "done" /\ html # <<>> /\ tracks = <<>>
  /\ result = ErrorResult("No tracks found")

\* the record of a url whose title and artist are its slugs, hyphens and
\* underscores replaced by spaces, in title case
SlugFormatted(u) ==
  TrackRecord(u, DisplayName(Segments(u)[2]), DisplayName(Segments(u)[1]),
              Dashed(DisplayName(Segments(u)[1]), DisplayName(Segments(u)[2])))

\* C7: every record the profile href-scan (pass 1) emits has the title and
\* the artist formatted from the track slug and the artist slug of its
\* href, fullTitle "{artist} - {title}" and no thumbnail.
HrefScanFormatsSlugs ==
  pc = "profile_method2" =>
    \A k \in 1..Len(tracks) : tracks[k] = SlugFormatted(tracks[k].url)

\* C8: every record of a pass has fullTitle "{artist} - {title}" when its
\* artist is known (not empty), and fullTitle equal to title otherwise.
FullTitleRule ==
  \A k \in 1..Len(tracks) :
    tracks[k].fullTitle =
      IF tracks[k].artist \notin {None, <<>>}
      THEN Dashed(tracks[k].artist, tracks[k].title)
      ELSE tracks[k].title

\* the calls in progress nest by one level each, no call runs past the
\* guard at a depth over MaxDepth
DepthBounded ==
  \A k \in 1..Len(stack) :
    /\ stack[k].depth = k - 1
    /\ stack[k].depth <= MaxDepth + 1
    /\ stack[k].next > 0 => stack[k].depth <= MaxDepth

\* a record is emitted by a call at a depth of at most MaxDepth, for a
\* track-like dict
EmitsWithinDepth ==
  tracks' # tracks =>
    /\ Running /\ Top.depth <= MaxDepth
    /\ Top.obj.type = "dict" /\ IsTrackUrl(UrlOf(Top.obj))
    /\ Len(tracks') = Len(tracks) + 1 /\ IsPrefix(tracks, tracks')

\* C9: extract_tracks_from_hydration terminates on every input, cyclic
\* ones included: no node is visited at a nesting depth over 10 (the root
\* at depth 0) and records are emitted at depth <= 10 only.
HydrationTerminates ==
  /\ []DepthBounded
  /\ [][EmitsWithinDepth]_vars
  /\ <>(pc = "done")

\* a dict that holds itself has been searched to the end, one record
\* emitted at each of the depths 0..MaxDepth
CyclicInputSearched ==
  /\ pc = "done" /\ IsList(result)
  /\ data # <<>> /\ data[1].type = "dict"
  /\ \E i \in 1..Len(data[1].vals) : data[1].vals[i] = PyRef(1)
  /\ Len(result.list) = MaxDepth + 1

\* an href whose first segment ends at its slash, its second segment
\* holding the slug (letter case ignored), at i
FirstHrefAt(d, i, slug) ==
  IF NextIn(d, i + 3, {"/", Q}) <= Len(d) /\ d[NextIn(d, i + 3, {"/", Q})] = "/"
  THEN SlugHrefAt(d, i, slug)
  ELSE NoMatch

\* the first such href of the document
FirstHrefSearch(d, slug) ==
  LET i == FirstOr({k \in 1..Len(d) : FirstHrefAt(d, k, slug).ok}, 0)
  IN  IF i = 0 THEN NoMatch ELSE FirstHrefAt(d, i, slug)

\* the label resolves to that href, or to none
FirstHrefStep(d, item, acc) ==
  PlaylistLabelAdd(
    FirstHrefSearch(d, Take(TrackNameSlug(Expand(item.track_name)), SlugPrefix)),
    Expand(item.track_name), Expand(item.artist_name), acc)

RECURSIVE FirstHrefLoop(_, _, _, _)
FirstHrefLoop(d, items, k, acc) ==
  IF k > Len(items) THEN acc
  ELSE FirstHrefLoop(d, items, k + 1, FirstHrefStep(d, items[k], acc))

\* C10: in the sound-list pass of scrape_playlist each label resolves to at
\* most one url, that of the first href of the document whose track part
\* holds the first 30 characters of the guessed slug; the label yields no
\* record when that href is seen or a set/playlist, or when there is none.
LabelResolvesToFirstHref ==
  pc = "playlist_method2" =>
    tracks =
      FirstHrefLoop(html,
                    FindAllFrom([k \in 1..Len(html) |-> PlaylistSoundItemAt(html, k)], 1),
                    1, PlaylistTrackStation(html, NoTracks)).tracks

=============================================================================
